---- MODULE Spec2Model ----
(***************************************************************************)
(* Drop Point Distance Calculator (src/app.py).                            *)
(*                                                                         *)
(* Floats are fixed-point integers with two decimals (Scale = 100): a      *)
(* coordinate 0.03 degrees is 3, a distance 1.11 km is 111.  A pandas or   *)
(* Python value is a record [k, v, s]: k is its kind ("num", "nan", "inf", *)
(* "none", "str"), v the fixed-point number, s the text of a string.       *)
(* A CSV cell is the sequence of its characters.                           *)
(***************************************************************************)
EXTENDS Integers, Sequences, FiniteSets, TLC

VARIABLES pc, uploaded_file, position, df, city_options, selected_city,
          reference_latitude, reference_longitude, processed_df, rendered,
          st_error, reads, distance, bucket, tables, summaries

vars == <<pc, uploaded_file, position, df, city_options, selected_city,
          reference_latitude, reference_longitude, processed_df, rendered,
          st_error, reads, distance, bucket, tables, summaries>>

\* ------------------------------------------------------------ bounds
MaxRows == 3
MaxDistance == 620
MaxPairRows == 3
MaxScriptRows == 2

\* ------------------------------------------------------------ values
Scale == 100

Num(n) == [k |-> "num", v |-> n, s |-> <<>>]
NaN == [k |-> "nan", v |-> 0, s |-> <<>>]
Inf == [k |-> "inf", v |-> 0, s |-> <<>>]
None == [k |-> "none", v |-> 0, s |-> <<>>]
Str(t) == [k |-> "str", v |-> 0, s |-> t]

Abs(n) == IF n < 0 THEN -n ELSE n
Min(a, b) == IF a < b THEN a ELSE b

lat_column == "drop point lat"
lon_column == "drop long"
city_column == "city name"

\* ------------------------------------------------------------ parsing
DigitChars == <<"0", "1", "2", "3", "4", "5", "6", "7", "8", "9">>

IsDigit(c) == \E d \in 1..10 : DigitChars[d] = c

DigitVal(c) == (CHOOSE d \in 1..10 : DigitChars[d] = c) - 1

IsDigits(t) == Len(t) > 0 /\ \A i \in 1..Len(t) : IsDigit(t[i])

RECURSIVE ParseDigits(_)
ParseDigits(t) ==
    IF t = <<>> THEN 0
    ELSE 10 * ParseDigits(SubSeq(t, 1, Len(t) - 1)) + DigitVal(t[Len(t)])

\* The float a numeral denotes: [-]digits[.digits], or inf; NaN when the text
\* is no numeral (errors='coerce').  Decimals past the second are below the
\* fixed-point resolution and are cut.
ParseFloat(t) ==
    LET neg == Len(t) > 0 /\ t[1] = "-"
        body == IF neg THEN Tail(t) ELSE t
        dots == {i \in 1..Len(body) : body[i] = "."}
        dot == IF dots = {} THEN Len(body) + 1 ELSE CHOOSE i \in dots : TRUE
        ip == SubSeq(body, 1, dot - 1)
        fp == SubSeq(body, dot + 1, Len(body))
        fp2 == SubSeq(fp, 1, Min(2, Len(fp)))
        frac == IF Len(fp2) = 0 THEN 0
                ELSE IF Len(fp2) = 1 THEN 10 * ParseDigits(fp2)
                ELSE ParseDigits(fp2)
        mag == ParseDigits(ip) * Scale + frac
    IN  IF body = <<"i", "n", "f">> THEN Inf
        ELSE IF Cardinality(dots) <= 1 /\ IsDigits(ip) /\ (fp = <<>> \/ IsDigits(fp))
             THEN Num(IF neg THEN -mag ELSE mag)
        ELSE NaN

\* Cells read_csv takes as missing (its default na_values).
NaCells == {<<>>, <<"N", "/", "A">>, <<"N", "A">>, <<"n", "a", "n">>}

\* pd.read_csv's value of one cell: a missing cell is NaN; in a column whose
\* other cells are all numerals the cell is its float, else its text.
CellValue(cell, numericColumn) ==
    IF cell \in NaCells THEN NaN
    ELSE IF numericColumn THEN ParseFloat(cell)
    ELSE Str(cell)

NumericColumn(rows, c) ==
    \A i \in 1..Len(rows) : rows[i][c] \in NaCells \/ ParseFloat(rows[i][c]).k # "nan"

\* The lines of the upload's buffer: the header and one per row; none when the
\* file holds no column.
NumLines(file) == IF file.columns = {} THEN 0 ELSE 1 + Len(file.rows)

\* pd.read_csv(uploaded_file) with the buffer at `pos`: it parses from the
\* position the buffer is at and leaves it at the end; with nothing left it
\* raises EmptyDataError.
ReadCsv(file, pos) ==
    IF pos >= NumLines(file)
    THEN [ok |-> FALSE, columns |-> {}, rows |-> <<>>]
    ELSE [ok |-> TRUE,
          columns |-> file.columns,
          rows |-> [i \in 1..Len(file.rows) |->
                     [index |-> i - 1,
                      val |-> [c \in file.columns |->
                                CellValue(file.rows[i][c], NumericColumn(file.rows, c))]]]]

\* ------------------------------------------------------------ functions
\* pd.to_numeric(..., errors='coerce') on one value.
to_numeric(x) == IF x.k = "str" THEN ParseFloat(x.s) ELSE x

\* dropna with the longitude left out of the subset.
dropna_lat_only(rows, subset) ==
    LET Keep(r) == r.val[lat_column].k # "nan"
    IN  SelectSeq(rows, Keep)

\* dropna giving the kept rows back to front.
dropna_reversed(rows, subset) ==
    LET Keep(r) == \A c \in subset : r.val[c].k # "nan"
        kept == SelectSeq(rows, Keep)
    IN  [i \in 1..Len(kept) |-> kept[Len(kept) + 1 - i]]

\* df.dropna(subset=...): the rows with no NaN in the subset, in order.
dropna(rows, subset) ==
    LET Keep(r) == \A c \in subset : r.val[c].k # "nan"
    IN  SelectSeq(rows, Keep)

\* float(x) as geopy's Point takes a coordinate: a string is parsed.
AsFloat(x) == IF x.k = "str" THEN ParseFloat(x.s) ELSE x

\* geopy normalises a longitude outside [-180, 180] into it.
NormalizeLongitude(lon) ==
    IF Abs(lon) > 180 * Scale
    THEN ((lon + 180 * Scale) % (360 * Scale)) - 180 * Scale
    ELSE lon

\* geopy raises ValueError for a coordinate that is not finite and for a
\* latitude outside [-90, 90].
GeodesicRaises(lat1, lon1, lat2, lon2) ==
    \/ \E x \in {lat1, lon1, lat2, lon2} : AsFloat(x).k # "num"
    \/ Abs(AsFloat(lat1).v) > 90 * Scale
    \/ Abs(AsFloat(lat2).v) > 90 * Scale

KmPerDegree == 111

\* geodesic(...).km.  The ellipsoidal length is replaced by a planar one with
\* the same zero set and symmetry: 1.11 km per hundredth of a degree along
\* each axis, the longitudes taken the short way round.
GeodesicKm(lat1, lon1, lat2, lon2) ==
    LET dlat == Abs(AsFloat(lat1).v - AsFloat(lat2).v)
        dl == Abs(NormalizeLongitude(AsFloat(lon1).v) - NormalizeLongitude(AsFloat(lon2).v))
        dlon == Min(dl, 360 * Scale - dl)
    IN  KmPerDegree * (dlat + dlon)

calculate_distance(lat1, lon1, lat2, lon2) ==
    IF GeodesicRaises(lat1, lon1, lat2, lon2)
    THEN None
    ELSE Num(GeodesicKm(lat1, lon1, lat2, lon2))

\* distance < n and n <= distance on floats: False when distance is NaN.
Lt(d, n) == d.k = "num" /\ d.v < n * Scale
Le(n, d) == d.k = "num" /\ n * Scale <= d.v

\* categorize_distance with the first comparison as distance <= 1.
categorize_distance_inclusive(d) ==
    IF d.k = "none" THEN "Invalid Coordinates"
    ELSE IF d.k = "num" /\ d.v <= 1 * Scale THEN "< 1 km"
    ELSE IF Le(1, d) /\ Lt(d, 2) THEN "1 - 2 km"
    ELSE IF Le(2, d) /\ Lt(d, 3) THEN "2 - 3 km"
    ELSE IF Le(3, d) /\ Lt(d, 4) THEN "3 - 4 km"
    ELSE IF Le(4, d) /\ Lt(d, 5) THEN "4 - 5 km"
    ELSE ">= 5 km"

\* Lines 39-52; None is told by identity, so NaN falls through every
\* comparison to the else branch.
categorize_distance(d) ==
    IF d.k = "none" THEN "Invalid Coordinates"
    ELSE IF Lt(d, 1) THEN "< 1 km"
    ELSE IF Le(1, d) /\ Lt(d, 2) THEN "1 - 2 km"
    ELSE IF Le(2, d) /\ Lt(d, 3) THEN "2 - 3 km"
    ELSE IF Le(3, d) /\ Lt(d, 4) THEN "3 - 4 km"
    ELSE IF Le(4, d) /\ Lt(d, 5) THEN "4 - 5 km"
    ELSE ">= 5 km"

\* The Series df.apply(..., axis=1) builds from the rows' results: pandas
\* infers float64 when a float is among them, and None becomes NaN; with no
\* float the Series is of objects and None stays.
SeriesOf(results) ==
    IF \E i \in DOMAIN results : results[i].k = "num"
    THEN [i \in DOMAIN results |-> IF results[i].k = "none" THEN NaN ELSE results[i]]
    ELSE results

NoTable == [status |-> "pending", error |-> FALSE, columns |-> {}, rows |-> <<>>]

\* The missing-column path giving back an empty frame instead of None.
MissingColumnsEmptyFrame ==
    [status |-> "df", error |-> TRUE, columns |-> {}, rows |-> <<>>]

\* Lines 71-73: st.error(...) and return None.
MissingColumnsResult ==
    [status |-> "None", error |-> TRUE, columns |-> {}, rows |-> <<>>]

\* status "None": the function returned None; "df": it returned the table;
\* "raised": an exception left it (df.apply on no rows gives back a frame,
\* and assigning a frame to one column raises ValueError).
process_drop_points(d, reference_lat, reference_lon) ==
    IF lat_column \notin d.columns \/ lon_column \notin d.columns
    THEN MissingColumnsResult
    ELSE
      LET coerced == [i \in DOMAIN d.rows |->
                        [d.rows[i] EXCEPT !.val =
                           [c \in d.columns |->
                              IF c \in {lat_column, lon_column}
                              THEN to_numeric(@[c]) ELSE @[c]]]]
          kept == dropna(coerced, {lat_column, lon_column})
          dist == SeriesOf([i \in DOMAIN kept |->
                     calculate_distance(reference_lat, reference_lon,
                                        kept[i].val[lat_column], kept[i].val[lon_column])])
      IN  IF kept = <<>>
          THEN [status |-> "raised", error |-> FALSE, columns |-> {}, rows |-> <<>>]
          ELSE [status |-> "df", error |-> FALSE,
                columns |-> d.columns \cup {"Distance (km)", "Distance Bucket"},
                rows |-> [i \in DOMAIN kept |->
                           [index |-> kept[i].index,
                            val |-> kept[i].val,
                            distance |-> dist[i],
                            bucket |-> categorize_distance(dist[i])]]]

\* ------------------------------------------------------------ summary
Count(col, l) == Cardinality({i \in DOMAIN col : col[i] = l})

Labels(col) == {col[i] : i \in DOMAIN col}

Orders(col) ==
    {o \in [1..Cardinality(Labels(col)) -> Labels(col)] :
        \A i, j \in DOMAIN o : i # j => o[i] # o[j]}

\* value_counts counting each label once.
value_counts_ones(col) ==
    {[i \in DOMAIN o |-> [label |-> o[i], count |-> 1]] : o \in Orders(col)}

\* value_counts without the sort by count.
value_counts_unsorted(col) ==
    {[i \in DOMAIN o |-> [label |-> o[i], count |-> Count(col, o[i])]] : o \in Orders(col)}

\* Series.value_counts(): one entry per label that occurs, by descending
\* count; the order among equal counts is the sort's and is not fixed.
value_counts(col) ==
    {[i \in DOMAIN o |-> [label |-> o[i], count |-> Count(col, o[i])]] :
        o \in {p \in Orders(col) :
                 \A i, j \in DOMAIN p : i < j => Count(col, p[i]) >= Count(col, p[j])}}

BucketColumn(t) == [i \in DOMAIN t.rows |-> t.rows[i].bucket]


\* What the page shows of a result: the table, the bucket counts and the
\* download button, or none of them when the function returned None.
NoRender == [shown |-> FALSE, table |-> <<>>, counts |-> <<>>, download |-> FALSE]

RenderOutcomes(p) ==
    IF p.status = "df"
    THEN {[shown |-> TRUE, table |-> p.rows, counts |-> vc, download |-> TRUE] :
             vc \in value_counts(BucketColumn(p))}
    ELSE {NoRender}

\* ------------------------------------------------------------ inputs
SeqsUpTo(S, n) == UNION {[1..k -> S] : k \in 0..n}

FullRows(cities, lats, lons) ==
    {(city_column :> c) @@ (lat_column :> a) @@ (lon_column :> b) :
        c \in cities, a \in lats, b \in lons}

RowsOver(cols, cities, lats, lons) ==
    {[c \in cols |-> r[c]] : r \in FullRows(cities, lats, lons)}

Files(colsets, n, cities, lats, lons) ==
    UNION {{[present |-> TRUE, columns |-> cols, rows |-> rs] :
               rs \in SeqsUpTo(RowsOver(cols, cities, lats, lons), n)} :
           cols \in colsets}

NoFile == [present |-> FALSE, columns |-> {}, rows |-> <<>>]

LatCells == {<<"0">>, <<"0", ".", "0", "3">>, <<"9", "5">>, <<"x">>}
LonCells == {<<"0">>, <<"-", "1", "9", "0">>, <<"N", "/", "A">>}

\* st.sidebar.number_input(min_value, max_value): a finite number in range.
ManualReferences == {<<Num(0), Num(0)>>, <<Num(5), Num(0)>>}

EnterCoordinatesBelow == Str(<<"Enter Coordinates Below">>)

ProcessFiles ==
    Files({{city_column, lat_column, lon_column}, {city_column, lat_column},
           {city_column, lon_column}, {city_column}},
          MaxRows, {<<"A">>}, LatCells, LonCells)

\* ------------------------------------------------------------ the process step
\* The process step (lines 196-222) on the table of an upload and a manual
\* reference.
Init ==
    /\ pc = "process"
    /\ uploaded_file \in ProcessFiles
    /\ position = NumLines(uploaded_file)
    /\ df = ReadCsv(uploaded_file, 0)
    /\ city_options = <<>>
    /\ selected_city = EnterCoordinatesBelow
    /\ \E ref \in ManualReferences :
          reference_latitude = ref[1] /\ reference_longitude = ref[2]
    /\ processed_df = NoTable
    /\ rendered = NoRender
    /\ st_error = {}
    /\ reads = <<>>
    /\ distance = None
    /\ bucket = ""
    /\ tables = <<>>
    /\ summaries = <<>>

CallProcess ==
    /\ pc = "process"
    /\ processed_df' = process_drop_points(df, reference_latitude, reference_longitude)
    /\ st_error' = IF processed_df'.error
                   THEN st_error \cup {"columns not found"} ELSE st_error
    /\ pc' = IF processed_df'.status = "raised" THEN "except" ELSE "returned"
    /\ UNCHANGED <<uploaded_file, position, df, city_options, selected_city,
                   reference_latitude, reference_longitude, rendered, reads,
                   distance, bucket, tables, summaries>>

Render ==
    /\ pc = "returned"
    /\ rendered' \in RenderOutcomes(processed_df)
    /\ pc' = "done"
    /\ UNCHANGED <<uploaded_file, position, df, city_options, selected_city,
                   reference_latitude, reference_longitude, processed_df, st_error,
                   reads, distance, bucket, tables, summaries>>

ProcessError ==
    /\ pc = "except"
    /\ st_error' = st_error \cup {"An error occurred"}
    /\ pc' = "done"
    /\ UNCHANGED <<uploaded_file, position, df, city_options, selected_city,
                   reference_latitude, reference_longitude, processed_df, rendered,
                   reads, distance, bucket, tables, summaries>>

Next == CallProcess \/ Render \/ ProcessError

Spec == Init /\ [][Next]_vars

\* ------------------------------------------------------------ the bucketizer
BucketInit ==
    /\ pc = "bucket"
    /\ distance \in {Num(d) : d \in 0..MaxDistance} \cup {None, NaN}
    /\ bucket = ""
    /\ uploaded_file = NoFile
    /\ position = 0
    /\ df = ReadCsv(NoFile, 0)
    /\ city_options = <<>>
    /\ selected_city = EnterCoordinatesBelow
    /\ reference_latitude = None
    /\ reference_longitude = None
    /\ processed_df = NoTable
    /\ rendered = NoRender
    /\ st_error = {}
    /\ reads = <<>>
    /\ tables = <<>>
    /\ summaries = <<>>

Categorize ==
    /\ pc = "bucket"
    /\ bucket' = categorize_distance(distance)
    /\ pc' = "bucketed"
    /\ UNCHANGED <<uploaded_file, position, df, city_options, selected_city,
                   reference_latitude, reference_longitude, processed_df, rendered,
                   st_error, reads, distance, tables, summaries>>

BucketNext == Categorize

BucketSpec == BucketInit /\ [][BucketNext]_vars


\* ------------------------------------------------------------ two summaries
PairLatCells == {<<"0">>, <<"0", ".", "0", "5">>, <<"i", "n", "f">>}
PairLonCells == {<<"0">>}

PairFiles ==
    {f \in Files({{city_column, lat_column, lon_column}}, MaxPairRows,
                 {<<"A">>}, PairLatCells, PairLonCells) : Len(f.rows) > 0}

\* Two uploads, each put through the process step with the reference (0, 0).
PairInit ==
    /\ pc = "pair"
    /\ tables \in {<<ReadCsv(f, 0), ReadCsv(g, 0)>> : f \in PairFiles, g \in PairFiles}
    /\ summaries = <<>>
    /\ distance = None
    /\ bucket = ""
    /\ uploaded_file = NoFile
    /\ position = 0
    /\ df = ReadCsv(NoFile, 0)
    /\ city_options = <<>>
    /\ selected_city = EnterCoordinatesBelow
    /\ reference_latitude = Num(0)
    /\ reference_longitude = Num(0)
    /\ processed_df = NoTable
    /\ rendered = NoRender
    /\ st_error = {}
    /\ reads = <<>>

Summarize ==
    /\ pc = "pair"
    /\ \E r1 \in RenderOutcomes(process_drop_points(tables[1], reference_latitude, reference_longitude)),
          r2 \in RenderOutcomes(process_drop_points(tables[2], reference_latitude, reference_longitude)) :
          summaries' = <<r1.counts, r2.counts>>
    /\ pc' = "summarized"
    /\ UNCHANGED <<uploaded_file, position, df, city_options, selected_city,
                   reference_latitude, reference_longitude, processed_df, rendered,
                   st_error, reads, distance, bucket, tables>>

PairNext == Summarize

PairSpec == PairInit /\ [][PairNext]_vars

\* ------------------------------------------------------------ the script
ScriptFiles ==
    {NoFile, [present |-> TRUE, columns |-> {}, rows |-> <<>>]}
    \cup Files({{city_column, lat_column, lon_column}, {lat_column, lon_column},
                {city_column, lon_column}},
               MaxScriptRows, {<<"A">>, <<"B">>}, {<<"0">>, <<"9", "5">>, <<>>}, {<<"0">>})

\* df[column].unique().tolist(): the values in order of first occurrence.
Unique(col) ==
    LET first == {i \in DOMAIN col : \A j \in 1..(i - 1) : col[j] # col[i]}
    IN  [n \in 1..Cardinality(first) |->
           col[CHOOSE i \in first : Cardinality({j \in first : j < i}) = n - 1]]

Column(d, c) == [i \in DOMAIN d.rows |-> d.rows[i].val[c]]

ScriptInit ==
    /\ pc = "start"
    /\ uploaded_file \in ScriptFiles
    /\ position = 0
    /\ df = ReadCsv(NoFile, 0)
    /\ city_options = <<>>
    /\ selected_city = EnterCoordinatesBelow
    /\ reference_latitude = None
    /\ reference_longitude = None
    /\ processed_df = NoTable
    /\ rendered = NoRender
    /\ st_error = {}
    /\ reads = <<>>
    /\ distance = None
    /\ bucket = ""
    /\ tables = <<>>
    /\ summaries = <<>>

\* Lines 158-169: the read that fills the city list.
ReadCityOptions ==
    /\ pc = "start"
    /\ LET r == ReadCsv(uploaded_file, position)
           found == IF uploaded_file.present /\ r.ok /\ city_column \in r.columns
                    THEN Unique(Column(r, city_column)) ELSE <<>>
       IN  /\ city_options' = IF found = <<>> THEN <<EnterCoordinatesBelow>> ELSE found
           /\ df' = IF uploaded_file.present /\ r.ok THEN r ELSE df
           /\ position' = IF uploaded_file.present /\ r.ok
                          THEN NumLines(uploaded_file) ELSE position
           /\ reads' = IF uploaded_file.present THEN Append(reads, r) ELSE reads
           /\ st_error' = IF uploaded_file.present /\ ~r.ok
                          THEN st_error \cup {"Error reading file to populate city"}
                          ELSE st_error
    /\ pc' = "select"
    /\ UNCHANGED <<uploaded_file, selected_city, reference_latitude,
                   reference_longitude, processed_df, rendered, distance, bucket,
                   tables, summaries>>

\* Line 171: the select box returns one of its options.
SelectCity ==
    /\ pc = "select"
    /\ \E i \in DOMAIN city_options : selected_city' = city_options[i]
    /\ pc' = "reference"
    /\ UNCHANGED <<uploaded_file, position, df, city_options, reference_latitude,
                   reference_longitude, processed_df, rendered, st_error, reads,
                   distance, bucket, tables, summaries>>

\* Lines 184-188 on a table that was read: the first row of the city.
CityReference(d, city) ==
    LET Of(r) == r.val[city_column] = city
        city_data == SelectSeq(d.rows, Of)
    IN  IF lat_column \notin d.columns \/ lon_column \notin d.columns
        THEN [error |-> TRUE, lat |-> None, lon |-> None]
        ELSE IF city_data = <<>>
        THEN [error |-> FALSE, lat |-> None, lon |-> None]
        ELSE [error |-> FALSE,
              lat |-> city_data[1].val[lat_column],
              lon |-> city_data[1].val[lon_column]]

\* Lines 174-192: the manual inputs, or the read that derives the city's
\* reference.
ReferenceStep ==
    /\ pc = "reference"
    /\ IF selected_city = EnterCoordinatesBelow
       THEN /\ \E ref \in ManualReferences :
                  reference_latitude' = ref[1] /\ reference_longitude' = ref[2]
            /\ UNCHANGED <<df, position, reads, st_error>>
       ELSE LET r == ReadCsv(uploaded_file, position)
                c == CityReference(r, selected_city)
            IN  /\ reads' = Append(reads, r)
                /\ df' = IF r.ok THEN r ELSE df
                /\ position' = IF r.ok THEN NumLines(uploaded_file) ELSE position
                /\ reference_latitude' = IF r.ok THEN c.lat ELSE None
                /\ reference_longitude' = IF r.ok THEN c.lon ELSE None
                /\ st_error' = IF ~r.ok \/ c.error
                               THEN st_error \cup {"Error getting coordinates for city"}
                               ELSE st_error
    /\ pc' = "process"
    /\ UNCHANGED <<uploaded_file, city_options, selected_city, processed_df, rendered,
                   distance, bucket, tables, summaries>>

\* Lines 195-222: the read that feeds processing, the call and the display.
ScriptProcess ==
    /\ pc = "process"
    /\ IF uploaded_file.present /\ reference_latitude # None /\ reference_longitude # None
       THEN LET r == ReadCsv(uploaded_file, position)
                p == process_drop_points(r, reference_latitude, reference_longitude)
            IN  /\ reads' = Append(reads, r)
                /\ df' = IF r.ok THEN r ELSE df
                /\ position' = IF r.ok THEN NumLines(uploaded_file) ELSE position
                /\ processed_df' = IF r.ok THEN p ELSE processed_df
                /\ rendered' \in IF r.ok THEN RenderOutcomes(p) ELSE {rendered}
                /\ st_error' = st_error
                      \cup (IF r.ok /\ p.error THEN {"columns not found"} ELSE {})
                      \cup (IF ~r.ok \/ p.status = "raised" THEN {"An error occurred"} ELSE {})
       ELSE UNCHANGED <<reads, df, position, processed_df, rendered, st_error>>
    /\ pc' = "done"
    /\ UNCHANGED <<uploaded_file, city_options, selected_city, reference_latitude,
                   reference_longitude, distance, bucket, tables, summaries>>

ScriptNext == ReadCityOptions \/ SelectCity \/ ReferenceStep \/ ScriptProcess

ScriptSpec == ScriptInit /\ [][ScriptNext]_vars


\* ------------------------------------------------------------ properties
\* The six distance-range labels categorize_distance returns.
DistanceBuckets == {"< 1 km", "1 - 2 km", "2 - 3 km", "3 - 4 km", "4 - 5 km", ">= 5 km"}

RECURSIVE SumCounts(_)
SumCounts(cs) == IF cs = <<>> THEN 0 ELSE cs[1].count + SumCounts(Tail(cs))

Position(cs, l) == CHOOSE i \in DOMAIN cs : cs[i].label = l

\* C1: a present distance d gets "< 1 km" exactly when 0 <= d < 1,
\* "1 - 2 km" exactly when 1 <= d < 2, "2 - 3 km" exactly when 2 <= d < 3,
\* "3 - 4 km" exactly when 3 <= d < 4, "4 - 5 km" exactly when 4 <= d < 5 and
\* ">= 5 km" exactly when d >= 5; so 1, 2, 3, 4 and 5 fall in the upper bucket
\* and no value outside a label's range receives it.
C1_BucketTable ==
    (pc = "bucketed" /\ distance.k = "num") =>
        LET d == distance.v
        IN  /\ (0 <= d /\ d < 1 * Scale) <=> (bucket = "< 1 km")
            /\ (1 * Scale <= d /\ d < 2 * Scale) <=> (bucket = "1 - 2 km")
            /\ (2 * Scale <= d /\ d < 3 * Scale) <=> (bucket = "2 - 3 km")
            /\ (3 * Scale <= d /\ d < 4 * Scale) <=> (bucket = "3 - 4 km")
            /\ (4 * Scale <= d /\ d < 5 * Scale) <=> (bucket = "4 - 5 km")
            /\ (5 * Scale <= d) <=> (bucket = ">= 5 km")
            /\ bucket \in DistanceBuckets

C1_Witness ==
    pc = "bucketed" /\ distance = Num(1 * Scale) /\ bucket = "1 - 2 km"

\* C2: in the returned table every row whose distance computation failed has
\* an absent distance and the label "Invalid Coordinates", whatever the other
\* rows did, and every other row has its own distance and that distance's
\* bucket.
C2_FailedRowsInvalid ==
    processed_df.status = "df" =>
        \A i \in DOMAIN processed_df.rows :
            LET r == processed_df.rows[i]
                d == calculate_distance(reference_latitude, reference_longitude,
                                        r.val[lat_column], r.val[lon_column])
            IN  IF d = None
                THEN r.distance.k \in {"none", "nan"} /\ r.bucket = "Invalid Coordinates"
                ELSE r.distance = d /\ r.bucket = categorize_distance(d)

\* C3: the returned table holds exactly the input rows whose latitude cell and
\* longitude cell are both present and numerals, and each of its rows has both
\* coordinates numeric.
C3_DropsUncoercibleRows ==
    processed_df.status = "df" =>
        LET Coerces(cell) == cell \notin NaCells /\ ParseFloat(cell).k # "nan"
            surviving == {i \in 1..Len(uploaded_file.rows) :
                            /\ Coerces(uploaded_file.rows[i][lat_column])
                            /\ Coerces(uploaded_file.rows[i][lon_column])}
        IN  /\ {processed_df.rows[i].index + 1 : i \in DOMAIN processed_df.rows} = surviving
            /\ \A i \in DOMAIN processed_df.rows :
                  /\ processed_df.rows[i].val[lat_column].k \in {"num", "inf"}
                  /\ processed_df.rows[i].val[lon_column].k \in {"num", "inf"}

C3_Witness ==
    /\ processed_df.status = "df"
    /\ Len(processed_df.rows) = 1
    /\ Len(uploaded_file.rows) = 3
    /\ uploaded_file.rows[1][lat_column] = <<"x">>
    /\ uploaded_file.rows[2][lon_column] = <<"N", "/", "A">>

\* C4: a row whose latitude is outside [-90, 90] or whose longitude is outside
\* [-180, 180] gets no numeric distance.
C4_OutOfRangeExcluded ==
    processed_df.status = "df" =>
        \A i \in DOMAIN processed_df.rows :
            LET r == processed_df.rows[i]
                lat == r.val[lat_column]
                lon == r.val[lon_column]
            IN  (\/ (lat.k = "num" /\ Abs(lat.v) > 90 * Scale)
                 \/ (lon.k = "num" /\ Abs(lon.v) > 180 * Scale))
                => r.distance.k # "num"

\* C5: on a table lacking 'drop point lat' or 'drop long' the function reports
\* the error and returns None without raising, with no distance or bucket, and
\* the page then shows no table, no counts and no download; on a table that
\* has both columns it never does so.
C5_MissingColumns ==
    LET lacks == lat_column \notin df.columns \/ lon_column \notin df.columns
    IN  /\ (lacks /\ pc \in {"returned", "done"}) =>
              /\ processed_df.status = "None"
              /\ processed_df.rows = <<>>
              /\ "columns not found" \in st_error
        /\ lacks => (pc # "except" /\ "An error occurred" \notin st_error)
        /\ (lacks /\ pc = "done") => rendered = NoRender
        /\ ~lacks => (processed_df.status # "None" /\ "columns not found" \notin st_error)

C5_Witness ==
    /\ pc = "done"
    /\ lat_column \in df.columns
    /\ lon_column \notin df.columns
    /\ Len(df.rows) = 2
    /\ processed_df.status = "None"

\* C6 (as stated): the summary lists all six distance buckets, those without
\* a record at count 0, and its counts sum to the number of records with a
\* present distance.
C6_AllSixListed ==
    rendered.shown =>
        /\ \A l \in DistanceBuckets : \E i \in DOMAIN rendered.counts :
              rendered.counts[i].label = l
        /\ SumCounts(rendered.counts)
              = Cardinality({i \in DOMAIN rendered.table : rendered.table[i].distance.k = "num"})

\* C6 (amended): the summary lists exactly the labels that occur in the
\* table's bucket column, each once with the number of its rows (at least 1),
\* and its counts sum to the number of rows of the table.
C6_ObservedListed ==
    rendered.shown =>
        LET col == BucketColumn(processed_df)
            cs == rendered.counts
        IN  /\ {cs[i].label : i \in DOMAIN cs} = Labels(col)
            /\ \A i \in DOMAIN cs : cs[i].count = Count(col, cs[i].label) /\ cs[i].count >= 1
            /\ \A i, j \in DOMAIN cs : i # j => cs[i].label # cs[j].label
            /\ SumCounts(cs) = Len(processed_df.rows)

C6_Witness ==
    /\ rendered.shown
    /\ Len(rendered.counts) = 2
    /\ rendered.counts[1].count = 2
    /\ \E l \in DistanceBuckets : \A i \in DOMAIN rendered.counts : rendered.counts[i].label # l

\* C7 (as stated): two summaries list the labels they share in the same
\* order.
C7_FixedOrder ==
    pc = "summarized" =>
        LET shared == {summaries[1][i].label : i \in DOMAIN summaries[1]}
                      \cap {summaries[2][i].label : i \in DOMAIN summaries[2]}
        IN  \A a, b \in shared :
               (Position(summaries[1], a) < Position(summaries[1], b))
               <=> (Position(summaries[2], a) < Position(summaries[2], b))

\* C7 (amended): a summary lists its labels by descending count: a label
\* never precedes one with more rows.
C7_ByDescendingCount ==
    pc = "summarized" =>
        \A n \in DOMAIN summaries : \A i, j \in DOMAIN summaries[n] :
            i < j => summaries[n][i].count >= summaries[n][j].count

C7_Witness ==
    /\ pc = "summarized"
    /\ Len(summaries[1]) = 2 /\ Len(summaries[2]) = 2
    /\ summaries[1][1].label = summaries[2][2].label
    /\ summaries[1][2].label = summaries[2][1].label
    /\ summaries[1][1].count > summaries[1][2].count
    /\ summaries[2][1].count > summaries[2][2].count

\* C8: with a city selected, the reference is the first row of that city, in
\* table order, whose coordinates are both present, numeric and in range.
C8_CityReferenceFirstValid ==
    (pc \in {"process", "done"} /\ selected_city # EnterCoordinatesBelow) =>
        LET InRange(cell, limit) ==
                /\ cell \notin NaCells
                /\ ParseFloat(cell).k = "num"
                /\ Abs(ParseFloat(cell).v) <= limit * Scale
            valid == {i \in 1..Len(uploaded_file.rows) :
                        /\ {lat_column, lon_column} \subseteq uploaded_file.columns
                        /\ uploaded_file.rows[i][city_column] = selected_city.s
                        /\ InRange(uploaded_file.rows[i][lat_column], 90)
                        /\ InRange(uploaded_file.rows[i][lon_column], 180)}
            first == CHOOSE i \in valid : \A j \in valid : i <= j
        IN  valid # {} =>
               /\ reference_latitude = ParseFloat(uploaded_file.rows[first][lat_column])
               /\ reference_longitude = ParseFloat(uploaded_file.rows[first][lon_column])

\* C9: the returned rows are the surviving input rows in their input order,
\* one record for each.
C9_OrderPreserved ==
    processed_df.status = "df" =>
        LET out == processed_df.rows
            Survives(r) == /\ to_numeric(r.val[lat_column]).k # "nan"
                           /\ to_numeric(r.val[lon_column]).k # "nan"
        IN  /\ \A i, j \in DOMAIN out : i < j => out[i].index < out[j].index
            /\ \A i \in DOMAIN out :
                  /\ out[i].index + 1 \in DOMAIN df.rows
                  /\ Survives(df.rows[out[i].index + 1])
                  /\ out[i].val[city_column] = df.rows[out[i].index + 1].val[city_column]
                  /\ out[i].val[lat_column] = to_numeric(df.rows[out[i].index + 1].val[lat_column])
                  /\ out[i].val[lon_column] = to_numeric(df.rows[out[i].index + 1].val[lon_column])
            /\ Len(out) = Cardinality({i \in DOMAIN df.rows : Survives(df.rows[i])})

C9_Witness ==
    /\ processed_df.status = "df"
    /\ Len(df.rows) = 3
    /\ Len(processed_df.rows) = 2
    /\ processed_df.rows[1].index = 0
    /\ processed_df.rows[2].index = 2
    /\ processed_df.rows[1].val[lat_column] # processed_df.rows[2].val[lat_column]

\* C10: with an uploaded file that has the required columns, every read of
\* it yields all its rows, and once a reference is determined the run ends
\* with the table processed and shown and no error reported.
C10_UploadProcessed ==
    (uploaded_file.present /\ {lat_column, lon_column} \subseteq uploaded_file.columns) =>
        /\ \A i \in DOMAIN reads :
              reads[i].ok /\ Len(reads[i].rows) = Len(uploaded_file.rows)
        /\ (pc = "done" /\ reference_latitude # None /\ reference_longitude # None) =>
              (processed_df.status = "df" /\ rendered.shown /\ st_error = {})

====
